---- MODULE Spec2Model ----
(***************************************************************************)
(* A model of onmt/Models.py: Encoder, StackedLSTM, Decoder and NMTModel.  *)
(*                                                                         *)
(* Tensors are nested sequences (1-based): a 3-d tensor t is indexed       *)
(* t[d0][d1][d2].  Real numbers are fixed-point integers in thousandths    *)
(* (1.0 is 1000).  The torch primitives the file calls (nn.LSTM,           *)
(* nn.LSTMCell, the embedding table, the generator) are opaque to the file;*)
(* they are instantiated here by fixed deterministic functions, and the    *)
(* final state of the encoder's nn.LSTM is an input drawn in Init.         *)
(***************************************************************************)
EXTENDS Integers, Sequences, FiniteSets, TLC

\* ---------------------------------------------------------------- bounds
MaxLayers == 2
MaxBatch == 2
MaxT == 4
MaxRnn == 2

\* onmt.Constants.UNK, the id replace_by_unk writes
UNK == 1

VARIABLES
    opt,        \* the static configuration the modules were built from
    training,   \* nn.Module.training of the model
    par,        \* the learned parameters
    input_tgt,  \* input[1]: the target batch, (T, batch) token ids
    enc_state,  \* what self.encoder(x) returns first: (h_n, c_n)
    pc,         \* position inside NMTModel.forward
    tgt,        \* forward's local tgt
    samples,    \* replace_by_unk's Bernoulli draws
    enc_hidden, \* encode's local after the flatten
    mu, logvar, \* encode's result
    eps,        \* reparameterize's noise (<<>> while none was drawn)
    z,          \* the latent code handed to decode
    hidden,     \* Decoder.forward's hidden: <<h, c>>
    dec_i,      \* Decoder.forward's loop index i
    input_t,    \* Decoder.forward's input_t
    fed,        \* the input_t given to self.rnn, one per iteration
    outputs,    \* Decoder.forward's outputs
    e_opt, e_pc, e_self,      \* Encoder.__init__: its opt, position, fields
    s_arg, s_pc, s_ret        \* StackedLSTM.forward: arguments, position, result

fwdVars == <<opt, training, par, input_tgt, enc_state, pc, tgt, samples,
             enc_hidden, mu, logvar, eps, z, hidden, dec_i, input_t, fed, outputs>>
encVars == <<e_opt, e_pc, e_self>>
stkVars == <<s_arg, s_pc, s_ret>>
vars == <<fwdVars, encVars, stkVars>>

\* ------------------------------------------------------- tensor helpers
RECURSIVE SumSeq(_)
SumSeq(s) == IF s = <<>> THEN 0 ELSE Head(s) + SumSeq(Tail(s))

RECURSIVE ConcatAll(_)
ConcatAll(ss) == IF ss = <<>> THEN <<>> ELSE Head(ss) \o ConcatAll(Tail(ss))

Abs(x) == IF x < 0 THEN -x ELSE x

\* torch.cat((a, b), 2) of two 3-d tensors
Cat2(a, b) == [i \in 1..Len(a) |-> [j \in 1..Len(a[i]) |-> a[i][j] \o b[i][j]]]

\* t.transpose(0, 1).contiguous() of a 3-d tensor
Transpose01(t) == [j \in 1..Len(t[1]) |-> [i \in 1..Len(t) |-> t[i][j]]]

\* m.view(m.size(0), -1) of a 3-d tensor: each row's memory, in order
FlattenRows(t) == [i \in 1..Len(t) |-> ConcatAll(t[i])]

\* the row-major memory of a 2-d tensor
Memory2(m) == ConcatAll(m)

\* mem.view(d0, d1, -1): the same memory read with a new shape
View3(mem, d0, d1) ==
    LET d2 == Len(mem) \div (d0 * d1)
    IN [i \in 1..d0 |-> [j \in 1..d1 |-> [k \in 1..d2 |->
            mem[((i - 1) * d1 + (j - 1)) * d2 + k]]]]

\* torch.chunk(t, 2, 2): the two halves of the last axis
Chunk2(t) ==
    LET n == Len(t[1][1])
        half == (n + 1) \div 2
    IN << [i \in 1..Len(t) |-> [j \in 1..Len(t[i]) |-> SubSeq(t[i][j], 1, half)]],
          [i \in 1..Len(t) |-> [j \in 1..Len(t[i]) |-> SubSeq(t[i][j], half + 1, n)]] >>

\* nn.Linear(n_in, n_out) applied to the rows of x; the weight matrix is taken
\* from the one-parameter family W[j][k] = w * j, the bias is b everywhere
Linear(w, b, n_out, x) ==
    [r \in 1..Len(x) |-> [j \in 1..n_out |-> w * j * SumSeq(x[r]) + b]]

Map2(F(_), x) == [r \in 1..Len(x) |-> [j \in 1..Len(x[r]) |-> F(x[r][j])]]

ReLU(v) == IF v > 0 THEN v ELSE 0

\* nn.PReLU with slope a (thousandths): v for v >= 0, a * v below
PReLU(a, v) == IF v >= 0 THEN v ELSE (a * v) \div 1000

\* exp(0.5 * lv) in thousandths, on the grid of half units of lv:
\* exp(0.25) = 1.284, exp(-0.25) = 0.779
RECURSIVE ExpQuarter(_)
ExpQuarter(n) ==
    IF n = 0 THEN 1000
    ELSE IF n > 0 THEN (ExpQuarter(n - 1) * 1284) \div 1000
    ELSE (ExpQuarter(n + 1) * 779) \div 1000

ExpHalf(lv) == ExpQuarter(lv \div 500)


\* ------------------------------------------------- opaque torch primitives
Vocab == {0, 1, 2}

\* self.word_lut: the embedding of a (batch) row of token ids, width 1
word_lut(row) == [r \in 1..Len(row) |-> <<row[r]>>]

\* nn.LSTMCell number i applied to (input, (h, c)), rows are batch examples
LSTMCell(i, x, h, c) ==
    LET c1 == [r \in 1..Len(h) |-> [k \in 1..Len(h[r]) |->
                  (c[r][k] + SumSeq(x[r]) + i) % 3]]
        h1 == [r \in 1..Len(h) |-> [k \in 1..Len(h[r]) |->
                  (h[r][k] + c1[r][k] + k) % 3]]
    IN <<h1, c1>>

\* self.generator: one logit per vocabulary entry, per batch example
generator(g, out) ==
    [r \in 1..Len(out) |-> [v \in Vocab |->
        ((SumSeq(out[r]) + 1) * (v + 1) + g * v) % 5]]

\* logit.max(-1)[1]: the index of the largest logit (the first one on a tie)
ArgMax(l) == CHOOSE v \in Vocab :
    /\ \A u \in Vocab : l[u] <= l[v]
    /\ \A u \in Vocab : (l[u] = l[v]) => v <= u

\* nn.Dropout: identity unless active; a kept element is scaled by 1/(1-p), p = 0.5
Dropout(active, mask, x) ==
    IF active THEN [r \in 1..Len(x) |-> [k \in 1..Len(x[r]) |-> 2 * x[r][k] * mask[r][k]]]
    ELSE x

Ones(B, n) == [r \in 1..B |-> [k \in 1..n |-> 1]]

\* the masks a call may draw: L masks of shape (B, n)
MaskSet(active, L, B, n) ==
    IF active THEN [1..L -> [1..B -> [1..n -> {0, 1}]]]
    ELSE {[i \in 1..L |-> Ones(B, n)]}

\* ------------------------------------------------------------ StackedLSTM
\* lines 57-59 without the test of line 58: dropout after every layer
LayerInputAlways(num_layers, i, active, mask, h_1_i) == Dropout(active, mask, h_1_i)

\* lines 57-59: what the next layer gets
LayerInput(num_layers, i, active, mask, h_1_i) ==
    IF i + 1 # num_layers THEN Dropout(active, mask, h_1_i) ELSE h_1_i

\* StackedLSTM.forward; i runs 0..num_layers-1 as in the code, st[n] is the
\* state of the loop after n iterations.  calls records each layer's arguments.
StackedLSTM_forward(num_layers, active, masks, input, hid) ==
    LET h_0 == hid[1]
        c_0 == hid[2]
        st[n \in 0..num_layers] ==
            IF n = 0 THEN [input |-> input, h_1 |-> <<>>, c_1 |-> <<>>, calls |-> <<>>]
            ELSE LET p == st[n - 1]
                     i == n - 1
                     r == LSTMCell(i, p.input, h_0[i + 1], c_0[i + 1])
                 IN [input |-> LayerInput(num_layers, i, active, masks[i + 1], r[1]),
                     h_1 |-> Append(p.h_1, r[1]),
                     c_1 |-> Append(p.c_1, r[2]),
                     calls |-> Append(p.calls,
                                 [input |-> p.input, h |-> h_0[i + 1], c |-> c_0[i + 1]])]
        fin == st[num_layers]
    IN [output |-> fin.input, hidden |-> <<fin.h_1, fin.c_1>>, calls |-> fin.calls]

\* ---------------------------------------------------------------- NMTModel
NumDirections(o) == IF o.brnn THEN 2 ELSE 1

\* line 127
ConcatHiddenSize(o) == o.layers * o.rnn_size * 2

\* _fix_enc_hidden: h.view(L, 2, B, D).transpose(1, 2).contiguous().view(L, B, 2D)
\* so out[l][b][d*D + k] = h[2l + d][b][k] (0-based); the identity when unidirectional
fix_enc_hidden(self, h) ==
    IF NumDirections(self) = 2
    THEN LET D == Len(h[1][1])
         IN [l \in 1..(Len(h) \div 2) |-> [b \in 1..Len(h[1]) |-> [j \in 1..(2 * D) |->
                h[2 * (l - 1) + ((j - 1) \div D) + 1][b][((j - 1) % D) + 1]]]]
    ELSE h

\* lines 141-142 as the specification words them: merge, then flatten
encode_flatten_merged(self, st) ==
    FlattenRows(Transpose01(Cat2(fix_enc_hidden(self, st[1]), fix_enc_hidden(self, st[2]))))

\* lines 141-142: cat along the features, batch-major, flattened
encode_flatten(self, st) ==
    FlattenRows(Transpose01(Cat2(st[1], st[2])))

\* lines 143 and 147
encode_mu(self, p, flat) ==
    LET m == Linear(p.w_mu, p.b_mu, self.latent_size, flat)
    IN IF self.prelu THEN Map2(LAMBDA v : PReLU(p.a_mu, v), m) ELSE m

\* lines 144, 145 and 148
encode_logvar(self, p, flat) ==
    LET nu == Map2(ReLU, Linear(p.w_nu, p.b_nu, self.latent_size, flat))
        lv == Map2(LAMBDA v : -2 * Abs(v), Linear(p.w_lv, p.b_lv, self.latent_size, nu))
    IN IF self.prelu THEN Map2(LAMBDA v : PReLU(p.a_logvar, v), lv) ELSE lv

\* lines 151-158: eps * std + mu
reparameterize(m, lv, e) ==
    [r \in 1..Len(m) |-> [j \in 1..Len(m[r]) |->
        (e[r][j] * ExpHalf(lv[r][j])) \div 1000 + m[r][j]]]

\* lines 208-211 with the flag ignored: the mean in both modes
ForwardZAlwaysMu(self, m, lv, e) == m

\* lines 208-211
ForwardZ(self, m, lv, e) ==
    IF ~self.deterministic THEN reparameterize(m, lv, e) ELSE m

\* lines 166-172: the initial decoder state <<h, c>>
decode_init(self, p, zz) ==
    LET lin == Linear(p.w_dec, p.b_dec, ConcatHiddenSize(self), zz)
        decStates == IF self.prelu THEN Map2(LAMBDA v : PReLU(p.a_dec, v), lin) ELSE lin
    IN Chunk2(View3(Memory2(decStates), self.layers, Len(zz)))

\* torch.bernoulli of one probability (percent)
Bernoulli(prob) == IF prob <= 0 THEN {0} ELSE IF prob >= 100 THEN {1} ELSE {0, 1}

\* the rows of draws tried: every row up to two examples, period two beyond
DrawRows(B) == {[b \in 1..B |-> IF b % 2 = 1 THEN x ELSE y] : x \in {0, 1}, y \in {0, 1}}

ErrOutcome == [err |-> TRUE, samples |-> <<>>, out |-> <<>>]

\* lines 188-200.  The set of outcomes of one call: the draws are random, and a
\* samples tensor of one row against a longer seqs is broadcast by builds that
\* broadcast and rejected by those that do not.
replace_by_unk(self, seqs, prob) ==
    LET seq_len == Len(seqs)
        batch_size == Len(seqs[1])
        n_probs == IF self.gpus THEN seq_len - 1 ELSE seq_len - 2
        rows == n_probs + 1
        draws == {s \in [1..rows -> DrawRows(batch_size)] :
                    /\ \A b \in 1..batch_size : s[1][b] = 1
                    /\ \A i \in 2..rows : \A b \in 1..batch_size : s[i][b] \in Bernoulli(prob)}
        mixed(s, f(_)) == [i \in 1..seq_len |-> [b \in 1..batch_size |->
                    seqs[i][b] * s[f(i)][b] + (1 - s[f(i)][b]) * UNK]]
    IN IF n_probs < 0 THEN {ErrOutcome}
       ELSE IF rows = seq_len
            THEN {[err |-> FALSE, samples |-> s, out |-> mixed(s, LAMBDA i : i)] : s \in draws}
       ELSE IF rows = 1
            THEN {[err |-> FALSE, samples |-> s, out |-> mixed(s, LAMBDA i : 1)] : s \in draws}
                 \cup {ErrOutcome}
       ELSE {ErrOutcome}

\* line 204 without the slice: the last token kept
TruncateNone(t) == t

\* line 204: input[1][:-1]
Truncate(t) == SubSeq(t, 1, Len(t) - 1)

\* lines 98-99 without the condition: the ground truth at every step
DecInputAlwaysTruth(self, i, emb_t, prev) == emb_t

\* lines 98-99: the ground truth when not dynamic or at i = 0, else what line 106 left
DecInput(self, i, emb_t, prev) ==
    IF ~self.dynamic_decode \/ i = 0 THEN emb_t ELSE prev

DropoutActive(self, train) == train /\ self.dropout > 0

\* the body of Decoder.forward's loop, lines 98-107, at index i: tok_row is the
\* target's row i, prev the input_t the iteration before left.  fed is what
\* self.rnn was given, input_t what the iteration leaves in input_t.
DecoderBody(self, train, p, masks, i, tok_row, prev, hid) ==
    LET active == DropoutActive(self, train)
        emb_t == word_lut(tok_row)
        in_t == DecInput(self, i, emb_t, prev)
        r == StackedLSTM_forward(self.layers, active, masks, in_t, hid)
        output == Dropout(active, masks[self.layers + 1], r.output)
        logit == generator(p.gen, output)
    IN [hidden |-> r.hidden,
        fed |-> in_t,
        logit |-> logit,
        input_t |-> IF self.dynamic_decode
                    THEN word_lut([b \in 1..Len(tok_row) |-> ArgMax(logit[b])])
                    ELSE in_t]

\* ------------------------------------------------------------------ inputs
Zero3(d0, d1, d2) == [i \in 1..d0 |-> [j \in 1..d1 |-> [k \in 1..d2 |-> 0]]]

\* a tensor all of whose elements differ: 10 * (row-major position) + off
Ramp3(d0, d1, d2, off) ==
    [i \in 1..d0 |-> [j \in 1..d1 |-> [k \in 1..d2 |->
        10 * (((i - 1) * d1 + (j - 1)) * d2 + k) + off]]]

\* final states (h_n, c_n) of the encoder's nn.LSTM, shape (d0, d1, d2): all
\* zero, one element at 0.5, or all elements different
EncStates(d0, d1, d2) ==
    LET zero == Zero3(d0, d1, d2)
        hot == {[zero EXCEPT ![i][j][k] = 500] : i \in 1..d0, j \in 1..d1, k \in 1..d2}
    IN {<<zero, zero>>, <<Ramp3(d0, d1, d2, 0), Ramp3(d0, d1, d2, 5)>>}
       \cup {<<t, zero>> : t \in hot} \cup {<<zero, t>> : t \in hot}

\* a time step's row of token ids over the batch: constant or alternating
RowSet(B) == {[b \in 1..B |-> IF b % 2 = 1 THEN x ELSE y] :
                <<x, y>> \in {<<1, 1>>, <<2, 2>>, <<2, 1>>}}

\* target batches input[1] of T steps; the last step is the end marker
Targets(T, B) == {t \in [1..T -> RowSet(B)] : t[T] = [b \in 1..B |-> 2]}

Params == [w_mu : {1}, b_mu : {0}, w_nu : {1}, b_nu : {0}, w_lv : {1}, b_lv : {0},
           w_dec : {1}, b_dec : {0}, a_mu : {250}, a_logvar : {250, -500}, a_dec : {250},
           gen : {0, 1}]

\* the noise tensors a draw may give, shape (B, n)
EpsSet(B, n) == {[r \in 1..B |-> [j \in 1..n |-> IF r % 2 = 1 THEN x ELSE y]] :
                    x \in {-1000, 1000}, y \in {-1000, 1000}}

BatchOf(t) == Len(t[1])

InitLocals ==
    /\ pc = "start"
    /\ tgt = <<>>
    /\ samples = <<>>
    /\ enc_hidden = <<>>
    /\ mu = <<>>
    /\ logvar = <<>>
    /\ eps = <<>>
    /\ z = <<>>
    /\ hidden = <<>>
    /\ dec_i = 0
    /\ input_t = <<>>
    /\ fed = <<>>
    /\ outputs = <<>>

EncIdle == e_opt = <<>> /\ e_pc = "idle" /\ e_self = <<>>
StkIdle == s_arg = <<>> /\ s_pc = "idle" /\ s_ret = <<>>

\* forward on a one-layer unidirectional model, every target: either the
\* replacement of line 206 runs (training, feed_gt_prob < 1) with every draw,
\* or it does not and every sampling mode and noise is tried
InitFwd ==
    /\ opt \in [layers : {1}, brnn : {FALSE}, rnn_size : {1}, latent_size : {1},
                word_vec_size : {1}, dropout : {0}, prelu : {FALSE},
                gpus : BOOLEAN, feed_gt_prob : {0, 50, 100},
                dynamic_decode : BOOLEAN, deterministic : BOOLEAN]
    /\ training \in BOOLEAN
    /\ par \in {p \in Params : p.a_logvar = 250}
    /\ \/ /\ training /\ opt.feed_gt_prob < 100
          /\ opt.deterministic /\ ~opt.dynamic_decode /\ par.gen = 0
       \/ /\ opt.feed_gt_prob = 100 /\ ~opt.gpus
    /\ \E T \in 2..MaxT, B \in 1..MaxBatch :
          /\ input_tgt \in Targets(T, B)
          /\ enc_state = <<Ramp3(1, B, 1, 0), Ramp3(1, B, 1, 5)>>
    /\ InitLocals /\ EncIdle /\ StkIdle

\* forward in evaluation mode on every shape of model and encoder state
InitLat ==
    /\ opt \in [layers : 1..MaxLayers, brnn : BOOLEAN, rnn_size : 1..MaxRnn,
                latent_size : {1}, word_vec_size : {1}, dropout : {0}, prelu : BOOLEAN,
                gpus : {FALSE}, feed_gt_prob : {100},
                dynamic_decode : {FALSE}, deterministic : BOOLEAN]
    /\ opt.rnn_size % NumDirections(opt) = 0
    /\ training = FALSE
    /\ par \in {p \in Params : p.gen = 0 /\ (~opt.prelu => p.a_logvar = 250)}
    /\ \E B \in 1..MaxBatch :
          /\ input_tgt = [i \in 1..2 |-> [b \in 1..B |-> 2]]
          /\ enc_state \in EncStates(opt.layers * NumDirections(opt), B,
                                     opt.rnn_size \div NumDirections(opt))
    /\ InitLocals /\ EncIdle /\ StkIdle

\* ----------------------------------------------------------------- actions
IdleOthers == UNCHANGED <<encVars, stkVars>>

\* NMTModel.forward, lines 203-206
ForwardStart ==
    /\ pc = "start"
    /\ LET t0 == Truncate(input_tgt)
       IN IF training /\ opt.feed_gt_prob < 100
          THEN \E r \in replace_by_unk(opt, t0, opt.feed_gt_prob) :
                  /\ pc' = IF r.err THEN "error" ELSE "encode"
                  /\ tgt' = IF r.err THEN t0 ELSE r.out
                  /\ samples' = r.samples
          ELSE /\ pc' = "encode"
               /\ tgt' = t0
               /\ samples' = samples
    /\ UNCHANGED <<opt, training, par, input_tgt, enc_state, enc_hidden, mu, logvar,
                   eps, z, hidden, dec_i, input_t, fed, outputs>>
    /\ IdleOthers

\* line 207: NMTModel.encode
Encode ==
    /\ pc = "encode"
    /\ LET flat == encode_flatten(opt, enc_state)
       IN /\ enc_hidden' = flat
          /\ mu' = encode_mu(opt, par, flat)
          /\ logvar' = encode_logvar(opt, par, flat)
    /\ pc' = "sample"
    /\ UNCHANGED <<opt, training, par, input_tgt, enc_state, tgt, samples,
                   eps, z, hidden, dec_i, input_t, fed, outputs>>
    /\ IdleOthers

\* lines 208-211: noise is drawn only inside reparameterize
Sample ==
    /\ pc = "sample"
    /\ IF opt.deterministic
       THEN /\ z' = ForwardZ(opt, mu, logvar, <<>>)
            /\ eps' = <<>>
       ELSE \E e \in EpsSet(Len(mu), opt.latent_size) :
            /\ z' = ForwardZ(opt, mu, logvar, e)
            /\ eps' = e
    /\ pc' = "decode"
    /\ UNCHANGED <<opt, training, par, input_tgt, enc_state, tgt, samples,
                   enc_hidden, mu, logvar, hidden, dec_i, input_t, fed, outputs>>
    /\ IdleOthers

\* line 212, NMTModel.decode up to the call of the decoder (lines 166-175)
Decode ==
    /\ pc = "decode"
    /\ hidden' = decode_init(opt, par, z)
    /\ dec_i' = 0
    /\ pc' = "decoder"
    /\ UNCHANGED <<opt, training, par, input_tgt, enc_state, tgt, samples,
                   enc_hidden, mu, logvar, eps, z, input_t, fed, outputs>>
    /\ IdleOthers

\* one iteration of Decoder.forward's loop, lines 97-107
DecoderIter ==
    /\ pc = "decoder"
    /\ dec_i < Len(tgt)
    /\ \E masks \in MaskSet(DropoutActive(opt, training), opt.layers + 1,
                            BatchOf(tgt), opt.rnn_size) :
          LET r == DecoderBody(opt, training, par, masks, dec_i, tgt[dec_i + 1],
                               input_t, hidden)
          IN /\ hidden' = r.hidden
             /\ input_t' = r.input_t
             /\ fed' = Append(fed, r.fed)
             /\ outputs' = Append(outputs, r.logit)
    /\ dec_i' = dec_i + 1
    /\ UNCHANGED <<opt, training, par, input_tgt, enc_state, pc, tgt, samples,
                   enc_hidden, mu, logvar, eps, z>>
    /\ IdleOthers

\* the loop is over: lines 109-111, 176 and 214
ForwardReturn ==
    /\ pc = "decoder"
    /\ dec_i >= Len(tgt)
    /\ pc' = "done"
    /\ UNCHANGED <<opt, training, par, input_tgt, enc_state, tgt, samples,
                   enc_hidden, mu, logvar, eps, z, hidden, dec_i, input_t, fed, outputs>>
    /\ IdleOthers

NextFwd == ForwardStart \/ Encode \/ Sample \/ Decode \/ DecoderIter \/ ForwardReturn

Spec == InitFwd /\ [][NextFwd]_vars

SpecLat == InitLat /\ [][NextFwd]_vars

\* ------------------------------------------------------- Encoder.__init__
\* line 14 left out: nothing is checked
EncAssertNone(rnn_size, num_directions) == TRUE

\* line 14: the condition of the assert
EncAssert(rnn_size, num_directions) == rnn_size % num_directions = 0

NoSelf == [layers |-> 0, num_directions |-> 0, hidden_size |-> 0, modules |-> {}]

InitEnc ==
    /\ e_opt \in [layers : 1..MaxLayers, brnn : BOOLEAN, rnn_size : 1..(MaxRnn + 2),
                  word_vec_size : {1, 2}, dropout : {0, 50}]
    /\ e_pc = "line12"
    /\ e_self = NoSelf
    /\ opt = <<>> /\ training = FALSE /\ par = <<>> /\ input_tgt = <<>>
    /\ enc_state = <<>> /\ InitLocals /\ StkIdle

\* lines 12-13
EncInitAttrs ==
    /\ e_pc = "line12"
    /\ e_self' = [e_self EXCEPT !.layers = e_opt.layers,
                                !.num_directions = IF e_opt.brnn THEN 2 ELSE 1]
    /\ e_pc' = "line14"
    /\ UNCHANGED <<e_opt, fwdVars, stkVars>>

\* lines 14-15: AssertionError leaves __init__, else hidden_size is set
EncInitAssert ==
    /\ e_pc = "line14"
    /\ IF EncAssert(e_opt.rnn_size, e_self.num_directions)
       THEN /\ e_self' = [e_self EXCEPT
                            !.hidden_size = e_opt.rnn_size \div e_self.num_directions]
            /\ e_pc' = "line16"
       ELSE /\ e_self' = e_self
            /\ e_pc' = "raised"
    /\ UNCHANGED <<e_opt, fwdVars, stkVars>>

\* lines 16-23: nn.Module.__init__, then the sub-modules word_lut and rnn
EncInitModules ==
    /\ e_pc = "line16"
    /\ e_self' = [e_self EXCEPT !.modules = {"word_lut", "rnn"}]
    /\ e_pc' = "built"
    /\ UNCHANGED <<e_opt, fwdVars, stkVars>>

\* Encoder.forward, lines 30-38: only an object __init__ returned can be called
EncForward ==
    /\ e_pc \in {"built", "called"}
    /\ e_pc' = "called"
    /\ UNCHANGED <<e_opt, e_self, fwdVars, stkVars>>

NextEnc == EncInitAttrs \/ EncInitAssert \/ EncInitModules \/ EncForward

SpecEnc == InitEnc /\ [][NextEnc]_vars

\* ----------------------------------------------------- StackedLSTM.forward
\* arguments of a call: L layers, batch B, rnn_size 1, graded values
StkArgs ==
    {[num_layers |-> L, active |-> a,
      input |-> [b \in 1..B |-> <<(w + b) % 3>>],
      hidden |-> << [l \in 1..L |-> [b \in 1..B |-> <<(x + l + b) % 3>>]],
                    [l \in 1..L |-> [b \in 1..B |-> <<(y + 2 * l + b) % 3>>]] >>] :
        L \in 1..MaxLayers, a \in BOOLEAN, B \in {1, 2},
        w \in 0..2, x \in 0..2, y \in 0..2}

InitStk ==
    /\ s_arg \in StkArgs
    /\ s_pc = "call"
    /\ s_ret = <<>>
    /\ opt = <<>> /\ training = FALSE /\ par = <<>> /\ input_tgt = <<>>
    /\ enc_state = <<>> /\ InitLocals /\ EncIdle

\* StackedLSTM.forward, lines 52-66, with the masks its dropout drew
StkForward ==
    /\ s_pc = "call"
    /\ \E masks \in MaskSet(s_arg.active, s_arg.num_layers, Len(s_arg.input), 1) :
          LET r == StackedLSTM_forward(s_arg.num_layers, s_arg.active, masks,
                                       s_arg.input, s_arg.hidden)
          IN s_ret' = [output |-> r.output, hidden |-> r.hidden,
                       calls |-> r.calls, masks |-> masks]
    /\ s_pc' = "ret"
    /\ UNCHANGED <<s_arg, fwdVars, encVars>>

NextStk == StkForward

SpecStk == InitStk /\ [][NextStk]_vars

\* ------------------------------------------------------------------ claims
Encoded == pc \in {"sample", "decode", "decoder", "done"}
Sampled == pc \in {"decode", "decoder", "done"}

\* C1: at every iteration i of Decoder.forward the stacked cell is fed the
\* embedding of the ground-truth token i when decoding is not dynamic or i = 0,
\* and otherwise the embedding of a token whose logit at iteration i-1 is the
\* largest; in dynamic mode an iteration i > 0 does the same (fed input, logits,
\* state, next input) whatever row of tokens the target holds at i, so the
\* ground truth after position 0 has no influence.
C1_FedInputs ==
    /\ \A n \in 1..Len(fed) : \A b \in 1..Len(fed[n]) :
          IF ~opt.dynamic_decode \/ n = 1
          THEN fed[n][b] = <<tgt[n][b]>>
          ELSE \E v \in Vocab :
                  /\ fed[n][b] = <<v>>
                  /\ \A u \in Vocab : outputs[n - 1][b][u] <= outputs[n - 1][b][v]
    /\ (pc = "decoder" /\ opt.dynamic_decode /\ 1 <= dec_i /\ dec_i < Len(tgt))
          => LET B == BatchOf(tgt)
                 ones == [i \in 1..(opt.layers + 1) |-> Ones(B, opt.rnn_size)]
             IN \A row \in [1..B -> Vocab] :
                   DecoderBody(opt, training, par, ones, dec_i, row, input_t, hidden)
                   = DecoderBody(opt, training, par, ones, dec_i, tgt[dec_i + 1],
                                 input_t, hidden)

\* C1 witness: a finished dynamic run of three steps that fed a token other
\* than the ground truth
C1_Witness ==
    /\ pc = "done" /\ opt.dynamic_decode /\ Len(fed) = 3
    /\ \E n \in 2..3 : fed[n] # word_lut(tgt[n])

\* C2: the decoder's loop appends one logit entry per iteration and stops only
\* after the last input step, so a forward that returns holds exactly T-1 logit
\* steps for a target of T steps, dynamic or not; forward fails to return only
\* where replace_by_unk raises (see C3).
C2_LogitCount ==
    /\ Len(outputs) = dec_i
    /\ Len(fed) = dec_i
    /\ dec_i <= Len(tgt)
    /\ pc = "done" => /\ dec_i = Len(tgt)
                      /\ Len(outputs) = Len(input_tgt) - 1
    /\ pc = "error" => training /\ opt.feed_gt_prob < 100 /\ ~opt.gpus

\* C2 witness: a dynamic forward on a target of 4 steps returned 3 logit steps
C2_Witness ==
    pc = "done" /\ opt.dynamic_decode /\ Len(input_tgt) = 4 /\ Len(outputs) = 3

\* C3: whenever forward calls replace_by_unk on a truncated target of length
\* >= 2, on the accelerator or not, the call returns a sequence of the same
\* shape whose row 0 is the original and whose later positions are the original
\* token where the position's draw is 1 and UNK where it is 0 (so all of them
\* are UNK at probability 0).
C3_Claim ==
    LET orig == Truncate(input_tgt)
    IN (pc # "start" /\ training /\ opt.feed_gt_prob < 100 /\ Len(orig) >= 2)
       => /\ pc # "error"
          /\ Len(tgt) = Len(orig)
          /\ tgt[1] = orig[1]
          /\ \A i \in 2..Len(orig) : \A b \in 1..BatchOf(orig) :
                /\ i <= Len(samples)
                /\ tgt[i][b] = IF samples[i][b] = 1 THEN orig[i][b] ELSE UNK
                /\ opt.feed_gt_prob = 0 => tgt[i][b] = UNK

\* C4 as claimed: the flat encoder state is the flattening of the merged
\* (layers, batch, directions*dim) hidden and cell tensors.
C4_Claim ==
    Encoded => enc_hidden = encode_flatten_merged(opt, enc_state)

\* C4 amended: encode flattens the final states as the encoder returned them,
\* unmerged: example b's flat vector lists, for each of the layers*directions
\* slots in order, the slot's hidden then its cell features; its width is
\* layers*rnn_size*2, and it is the merged flattening when unidirectional.
C4_Unmerged ==
    Encoded =>
       /\ \A b \in 1..Len(enc_hidden) :
             /\ enc_hidden[b] = ConcatAll([i \in 1..Len(enc_state[1]) |->
                                   enc_state[1][i][b] \o enc_state[2][i][b]])
             /\ Len(enc_hidden[b]) = opt.layers * opt.rnn_size * 2
       /\ Len(enc_hidden) = BatchOf(enc_state[1])
       /\ ~opt.brnn => enc_hidden = encode_flatten_merged(opt, enc_state)

\* C4 witness: a bidirectional encoder state whose flattening differs from
\* the merged one
C4_Witness ==
    Encoded /\ opt.brnn /\ enc_hidden # encode_flatten_merged(opt, enc_state)

\* C5: flattening a state pair (hidden, cell) of shape (layers, batch,
\* directions*hidden_size) as encode does, then decode's view(layers, batch, -1)
\* and chunk, gives back the same pair element for element.
C5_Claim ==
    Encoded =>
       LET h == fix_enc_hidden(opt, enc_state[1])
           c == fix_enc_hidden(opt, enc_state[2])
           flat == FlattenRows(Transpose01(Cat2(h, c)))
       IN Chunk2(View3(Memory2(flat), opt.layers, Len(flat))) = <<h, c>>

\* C6: every element of the log-variance encode returns is <= 0, whatever the
\* parameters, prelu included.
C6_Claim ==
    Encoded => \A r \in 1..Len(logvar) : \A j \in 1..Len(logvar[r]) : logvar[r][j] <= 0

\* C7: with the deterministic flag the code given to decode is mu and no noise
\* was drawn; without it noise was drawn and the code is mu + exp(0.5*logvar)*eps.
C7_LatentCode ==
    Sampled =>
       IF opt.deterministic
       THEN z = mu /\ eps = <<>>
       ELSE /\ eps # <<>>
            /\ Len(z) = Len(mu)
            /\ \A r \in 1..Len(mu) : \A j \in 1..Len(mu[r]) :
                  z[r][j] = mu[r][j] + (eps[r][j] * ExpHalf(logvar[r][j])) \div 1000

\* C7 witness: deterministic mode handed a mean with a nonzero log-variance on
\* as the code
C7_Witness ==
    /\ pc = "decode" /\ opt.deterministic /\ z = mu
    /\ \E r \in 1..Len(logvar) : logvar[r][1] < 0

\* C10: the initial decoder state of example b, at every layer, is a function
\* of row b of z alone: moving another row of z leaves it as it is.
C10_Claim ==
    (pc = "decoder" /\ dec_i = 0) =>
       \A b \in 1..Len(z) : \A b2 \in 1..Len(z) :
          b2 # b =>
             LET z2 == [z EXCEPT ![b2] = [j \in 1..Len(z[b2]) |-> z[b2][j] + 1000]]
                 alt == decode_init(opt, par, z2)
             IN \A l \in 1..opt.layers :
                   /\ alt[1][l][b] = hidden[1][l][b]
                   /\ alt[2][l][b] = hidden[2][l][b]

\* C8: an Encoder whose rnn_size is not divisible by the number of directions
\* leaves __init__ by the assert with no sub-module made and is never called;
\* past the assert the size is divisible and hidden_size * directions = rnn_size.
C8_FailFast ==
    LET nd == IF e_opt.brnn THEN 2 ELSE 1
        bad == e_opt.rnn_size % nd # 0
    IN /\ e_pc \in {"line16", "built", "called"} =>
             /\ ~bad
             /\ e_self.num_directions = nd
             /\ e_self.hidden_size * nd = e_opt.rnn_size
       /\ e_pc = "raised" => bad /\ e_self.modules = {}
       /\ bad => e_pc \in {"line12", "line14", "raised"} /\ e_self.modules = {}

\* C8 witness: a bidirectional Encoder of odd rnn_size failed in __init__
C8_Witness ==
    e_pc = "raised" /\ e_opt.brnn /\ e_opt.rnn_size % 2 = 1

\* C9: layer 0 gets the caller's input, layer i > 0 the dropout of layer i-1's
\* new hidden state; the output is the top layer's new hidden state without
\* dropout; the state returned has one (h, c) pair per layer, each the cell's
\* result on the old state of that layer, in the shape of the state passed in.
C9_Stacked ==
    s_pc = "ret" =>
       LET L == s_arg.num_layers
           h_0 == s_arg.hidden[1]
           c_0 == s_arg.hidden[2]
           h_1 == s_ret.hidden[1]
           c_1 == s_ret.hidden[2]
       IN /\ Len(s_ret.calls) = L /\ Len(h_1) = L /\ Len(c_1) = L
          /\ Len(h_0) = L /\ Len(c_0) = L
          /\ s_ret.calls[1].input = s_arg.input
          /\ \A i \in 2..L :
                s_ret.calls[i].input =
                   [b \in 1..Len(h_1[i - 1]) |-> [k \in 1..Len(h_1[i - 1][b]) |->
                       IF s_arg.active
                       THEN 2 * h_1[i - 1][b][k] * s_ret.masks[i - 1][b][k]
                       ELSE h_1[i - 1][b][k]]]
          /\ s_ret.output = h_1[L]
          /\ \A i \in 1..L :
                /\ s_ret.calls[i].h = h_0[i] /\ s_ret.calls[i].c = c_0[i]
                /\ <<h_1[i], c_1[i]>> = LSTMCell(i - 1, s_ret.calls[i].input, h_0[i], c_0[i])
                /\ Len(h_1[i]) = Len(h_0[i]) /\ Len(c_1[i]) = Len(c_0[i])
                /\ \A b \in 1..Len(h_0[i]) :
                      Len(h_1[i][b]) = Len(h_0[i][b]) /\ Len(c_1[i][b]) = Len(c_0[i][b])

\* C9 witness: two layers, dropout changed what layer 1 was given, and the
\* output is a nonzero top hidden state
C9_Witness ==
    /\ s_pc = "ret" /\ s_arg.num_layers = 2 /\ s_arg.active
    /\ s_ret.calls[2].input # s_ret.hidden[1][1]
    /\ s_ret.output = s_ret.hidden[1][2]
    /\ \E b \in 1..Len(s_ret.output) : s_ret.output[b][1] # 0
====
